---- MODULE Spec2Model ----
(***************************************************************************)
(* Tilted board layout (src/main.py): TiltedLine, Layout, EvenLayout,      *)
(* OddLayout.                                                              *)
(*                                                                         *)
(* Numbers.  The program computes in IEEE doubles; the model computes in   *)
(* fixed point, every length stored multiplied by Scale.  The two agree    *)
(* only where no operation of the program rounds, so the configurations    *)
(* are restricted to those on which every double the program forms is a    *)
(* multiple of 1/Scale, which a double holds exactly:                      *)
(*   - the angle is one of the four angles of AngleTable, given in         *)
(*     degrees as the doubles listed there, for which math.tan returns     *)
(*     exactly 0.75 or -0.75 and math.sin returns the double nearest to    *)
(*     0.6 or -0.6;                                                        *)
(*   - board_width, spacing and height are Python ints that are multiples  *)
(*     of Unit = 3, so that board_width / sin and spacing / sin round to   *)
(*     the exact multiples of 5 and (y - intercept) / slope is exact;      *)
(*   - width is any Python int.                                            *)
(* On these configurations the doubles of the program are the fixed-point  *)
(* values of the model, bit for bit (the invariant ArithmeticExact checks  *)
(* that no fixed-point quotient of a run leaves a remainder).  Where a     *)
(* double would round (other angles, other lengths) an edge line that      *)
(* passes through a frame corner can fall on either side of the program's  *)
(* inclusive comparisons; such configurations are not in the model.        *)
(* The model has one zero: on these configurations no coordinate the       *)
(* program computes is the double -0.0.                                    *)
(***************************************************************************)
EXTENDS Integers, Sequences, FiniteSets, TLC

(* ---------------------------------------------------------------------- *)
(* Bounds of the checked configurations                                    *)
(* ---------------------------------------------------------------------- *)
MaxWidth == 12
MaxHeight == 3
MaxBoardWidth == 6
MaxSpacing == 6
\* cap on the boards one call of calculate may add: keeps a non-terminating
\* loop finite
MaxBoards == 8
\* number of times calculate is called on one Layout
MaxRuns == 2

\* fixed-point denominator: lengths are stored as multiples of 1/Scale
Scale == 2^3
\* math.isclose default rel_tol = 1e-09, as its reciprocal
RelTolInv == 10^9

Abs(v) == IF v < 0 THEN -v ELSE v
Min(a, b) == IF a <= b THEN a ELSE b
Max(a, b) == IF a >= b THEN a ELSE b

(* ---------------------------------------------------------------------- *)
(* Angles: math.radians / math.sin / math.tan on the modelled angles       *)
(* ---------------------------------------------------------------------- *)
\* angle name -> the values of math.sin and math.tan at math.radians(angle),
\* as sn/sd and tn/td (sd > 0, td > 0); the angle in degrees is the double
\* given on the right
AngleTable ==
  [ a0    |-> [sn |-> 0,  sd |-> 1, tn |-> 0,  td |-> 1],   \* 0.0
    a37   |-> [sn |-> 3,  sd |-> 5, tn |-> 3,  td |-> 4],   \* 36.86989764584402
    a143  |-> [sn |-> 3,  sd |-> 5, tn |-> -3, td |-> 4],   \* 143.13010235415598
    am37  |-> [sn |-> -3, sd |-> 5, tn |-> -3, td |-> 4],   \* -36.86989764584402
    am143 |-> [sn |-> -3, sd |-> 5, tn |-> 3,  td |-> 4] ]  \* -143.13010235415598

ValidAngles == {"a37", "a143", "am37", "am143"}

\* height, board_width and spacing are multiples of Unit, the numerator of
\* the sine and of the tangent
Unit == AngleTable["a37"].sn

Sin(angle) == [n |-> AngleTable[angle].sn, d |-> AngleTable[angle].sd]
Tan(angle) == [n |-> AngleTable[angle].tn, d |-> AngleTable[angle].td]

\* r * v and v / r for a rational r = r.n / r.d with r.d > 0
MulRat(r, v) == (r.n * v) \div r.d
DivRat(v, r) == IF r.n > 0 THEN (v * r.d) \div r.n ELSE ((-v) * r.d) \div (-r.n)
\* is r * v resp. v / r a multiple of 1/Scale
MulExact(r, v) == (r.n * v) % r.d = 0
DivExact(v, r) == (v * r.d) % Abs(r.n) = 0

\* math.isclose(a, b): abs(a - b) <= rel_tol * max(abs(a), abs(b)), abs_tol = 0
IsClose(a, b) == Abs(a - b) <= Max(Abs(a), Abs(b)) \div RelTolInv

(* ---------------------------------------------------------------------- *)
(* TiltedLine                                                              *)
(* ---------------------------------------------------------------------- *)
TiltedLine(angle, offset) ==
  [angle |-> angle, slope |-> Tan(angle), intercept |-> -MulRat(Tan(angle), offset)]

\* y of the line at x
LineY(line, x) == MulRat(line.slope, x) + line.intercept

\* the result of an intersection: the points found, or a raised ValueError
Points(pts) == [raises |-> FALSE, pts |-> pts]
ValueError == [raises |-> TRUE, pts |-> << >>]

\* 0 or 1 points (None is the empty sequence); a segment that is neither
\* vertical nor horizontal raises ValueError
intersect_aa_line(line, p1, p2) ==
  IF IsClose(p1[1], p2[1])
  THEN LET x == p1[1]
           y == LineY(line, x)
       IN IF y >= Min(p1[2], p2[2]) /\ y <= Max(p1[2], p2[2])
          THEN Points(<< <<x, y>> >>) ELSE Points(<< >>)
  ELSE IF IsClose(p1[2], p2[2])
  THEN LET y == p1[2]
           x == DivRat(y - line.intercept, line.slope)
       IN IF x >= Min(p1[1], p2[1]) /\ x <= Max(p1[1], p2[1])
          THEN Points(<< <<x, y>> >>) ELSE Points(<< >>)
  ELSE ValueError

\* the intersections with the four sides, in frame order; consumed as a list,
\* the generator raises what a side raises
intersect_frame(line, fr) ==
  LET side(i) == intersect_aa_line(line, fr[i], fr[(i % 4) + 1])
  IN IF \E i \in 1..4 : side(i).raises THEN ValueError
     ELSE Points(side(1).pts \o side(2).pts \o side(3).pts \o side(4).pts)

\* variant: the bounds are taken as y1 <= y <= y2, without min and max
is_point_between_lines_unordered(line, point, other) ==
  LET y1 == LineY(line, point[1])
      y2 == LineY(other, point[1])
  IN point[2] >= y1 /\ point[2] <= y2

is_point_between_lines(line, point, other) ==
  LET y1 == LineY(line, point[1])
      y2 == LineY(other, point[1])
  IN point[2] >= Min(y1, y2) /\ point[2] <= Max(y1, y2)

(* ---------------------------------------------------------------------- *)
(* Layout: state                                                           *)
(* ---------------------------------------------------------------------- *)
VARIABLES
  cfg,                  \* arguments of the constructor, and the subclass
  pc,                   \* position in construct / calculate
  runs,                 \* the number of calls of calculate so far
  frame,                \* self.frame
  offset_step,          \* self.offset_step
  board_x_half_width,   \* self.board_x_half_width
  offset,               \* local variable offset of calculate
  boards,               \* self.boards
  top_offsets, bottom_offsets, left_offsets, right_offsets,
  calls,                \* history: the calls of _try_create_board and their results
  built                 \* history: the offset each entry of boards was built at

vars == <<cfg, pc, runs, frame, offset_step, board_x_half_width, offset, boards,
          top_offsets, bottom_offsets, left_offsets, right_offsets, calls, built>>

\* the outcome of _try_create_board: None, a list of points, or a raised
\* ValueError
None == [isNone |-> TRUE, raises |-> FALSE, pts |-> << >>]
Board(pts) == [isNone |-> FALSE, raises |-> FALSE, pts |-> pts]
Raised == [isNone |-> FALSE, raises |-> TRUE, pts |-> << >>]

Frame(width, height) ==
  LET hw == (width * Scale) \div 2
      hh == (height * Scale) \div 2
  IN << <<-hw, -hh>>, <<hw, -hh>>, <<hw, hh>>, <<-hw, hh>> >>

(* ---------------------------------------------------------------------- *)
(* _sort_board_points: sorted(board, key = atan2(y - cy, x - cx))          *)
(* ---------------------------------------------------------------------- *)
\* position of atan2(dy, dx) in (-pi, pi]: 1 for (-pi, 0), 2 for 0,
\* 3 for (0, pi), 4 for pi
AngleClass(dx, dy) ==
  IF dy < 0 THEN 1
  ELSE IF dy > 0 THEN 3
  ELSE IF dx >= 0 THEN 2 ELSE 4

\* atan2(p - center) < atan2(q - center)
AngleLess(center, p, q) ==
  LET px == p[1] - center[1]
      py == p[2] - center[2]
      qx == q[1] - center[1]
      qy == q[2] - center[2]
      cp == AngleClass(px, py)
      cq == AngleClass(qx, qy)
  IN IF cp # cq THEN cp < cq
     ELSE IF cp \in {2, 4} THEN FALSE
     ELSE px * qy - py * qx > 0

\* sorted() is stable: the point at index i comes after the points with a
\* smaller key and after the points with an equal key at a smaller index
SortedPosition(center, board, i) ==
  1 + Cardinality({ j \in 1..Len(board) :
        \/ AngleLess(center, board[j], board[i])
        \/ (~AngleLess(center, board[i], board[j]) /\ j < i) })

\* (the list is bound as b over a singleton, so that it is computed once)
sort_board_points(board, center) ==
  CHOOSE sorted \in
    { [ k \in 1..Len(b) |->
          b[CHOOSE i \in 1..Len(b) : SortedPosition(center, b, i) = k] ] : b \in {board} } :
    TRUE

(* ---------------------------------------------------------------------- *)
(* _try_create_board                                                       *)
(* ---------------------------------------------------------------------- *)
\* variant: the first edge line is put at the center of the board
XMin_center(o) == o

XMin(o) == o - board_x_half_width
XMax(o) == o + board_x_half_width

Line1(o) == TiltedLine(cfg.angle, XMin(o))
Line2(o) == TiltedLine(cfg.angle, XMax(o))

\* the frame corners between the two lines, in frame order
CornersBetween(l1, l2, corners) ==
  SelectSeq(corners, LAMBDA corner : is_point_between_lines(l1, corner, l2))

OutOfFrame(intersections1, intersections2) ==
  Len(intersections1) = 0 /\ Len(intersections2) = 0

\* (the two intersection lists are bound over singletons, so that each is
\* computed once)
try_create_board(o) ==
  LET center == <<o, 0>>
      line1 == Line1(o)
      line2 == Line2(o)
  IN CHOOSE board \in
       { IF intersections1.raises \/ intersections2.raises THEN Raised
         ELSE IF OutOfFrame(intersections1.pts, intersections2.pts) THEN None
         ELSE Board(sort_board_points(
                CornersBetween(line1, line2, frame)
                  \o intersections1.pts \o intersections2.pts,
                center)) :
           intersections1 \in {intersect_frame(line1, frame)},
           intersections2 \in {intersect_frame(line2, frame)} } : TRUE

(* ---------------------------------------------------------------------- *)
(* Configurations                                                          *)
(* ---------------------------------------------------------------------- *)
Config(w, h, bw, a, sp, k) ==
  [width |-> w, height |-> h, board_width |-> bw, angle |-> a, spacing |-> sp, kind |-> k]

Kinds == {"Even", "Odd"}

\* the multiples of Unit in lo..hi
Multiples(lo, hi) == { v \in lo..hi : v % Unit = 0 }

\* width > 0, height > 0, board_width > 0, spacing >= 0, sin(angle) # 0
ValidConfigs ==
  { Config(w, h, bw, a, sp, k) :
      w \in 1..MaxWidth, h \in Multiples(1, MaxHeight), bw \in Multiples(1, MaxBoardWidth),
      a \in ValidAngles, sp \in Multiples(0, MaxSpacing), k \in Kinds }

\* configurations the specification calls invalid, which the constructor is given too
InvalidConfigs ==
  { Config(w, 3, 3, a, 0, k) : w \in {0, -2}, a \in {"a37", "a143"}, k \in Kinds }
  \cup { Config(4, h, 3, a, 3, k) : h \in {0, -3}, a \in {"a37", "am37"}, k \in Kinds }
  \cup { Config(4, 3, bw, a, 3, k) : bw \in {0, -6}, a \in {"a37", "am143"}, k \in Kinds }
  \cup { Config(4, 3, bw, "a0", sp, k) : bw \in {3, 6}, sp \in {0, 3}, k \in Kinds }

Configs == ValidConfigs \cup InvalidConfigs

IsValid(c) ==
  /\ c.width > 0 /\ c.height > 0 /\ c.board_width > 0 /\ c.spacing >= 0
  /\ Sin(c.angle).n # 0

(* ---------------------------------------------------------------------- *)
(* Layout.__init__                                                         *)
(* ---------------------------------------------------------------------- *)
Init ==
  /\ cfg \in Configs
  /\ pc = "new"
  /\ runs = 0
  /\ frame = << >>
  /\ offset_step = 0
  /\ board_x_half_width = 0
  /\ offset = 0
  /\ boards = << >>
  /\ top_offsets = << >>
  /\ bottom_offsets = << >>
  /\ left_offsets = << >>
  /\ right_offsets = << >>
  /\ calls = << >>
  /\ built = << >>

\* variant: the spacing is left out of the step
OffsetStep_no_spacing(c) == DivRat(c.board_width * Scale, Sin(c.angle))

\* board_width / sin + spacing / sin
OffsetStep(c) ==
  DivRat(c.board_width * Scale, Sin(c.angle)) + DivRat(c.spacing * Scale, Sin(c.angle))

\* board_width / sin / 2
BoardXHalfWidth(c) == DivRat(c.board_width * Scale, Sin(c.angle)) \div 2

\* the division by math.sin(self.angle) of line 69 raises ZeroDivisionError
\* when the sine is 0; no other check is made
Construct ==
  /\ pc = "new"
  /\ frame' = Frame(cfg.width, cfg.height)
  /\ IF Sin(cfg.angle).n = 0
     THEN /\ pc' = "ZeroDivisionError"
          /\ UNCHANGED <<offset_step, board_x_half_width>>
     ELSE /\ pc' = "constructed"
          /\ offset_step' = OffsetStep(cfg)
          /\ board_x_half_width' = BoardXHalfWidth(cfg)
  /\ UNCHANGED <<cfg, runs, offset, boards, top_offsets, bottom_offsets, left_offsets,
                 right_offsets, calls, built>>

(* ---------------------------------------------------------------------- *)
(* Layout.calculate                                                        *)
(* ---------------------------------------------------------------------- *)
\* calculate is called: on the constructed Layout, or again on a Layout whose
\* last call of calculate has returned or has raised
CanCalculate ==
  \/ pc = "constructed"
  \/ pc \in {"done", "TypeError", "ValueError"} /\ runs < MaxRuns

\* offset = self.setup()
\* (a result is bound with \E over a singleton, so that it is computed once)
Setup ==
  /\ CanCalculate
  /\ runs' = runs + 1
  /\ IF cfg.kind = "Even"
     THEN /\ offset' = (-offset_step) \div 2
          /\ pc' = "loop"
          /\ UNCHANGED <<boards, calls, built>>
     ELSE \E board \in {try_create_board(0)} :
          /\ calls' = Append(calls, [offset |-> 0, result |-> board])
          /\ offset' = 0
          /\ IF board.raises
             THEN /\ pc' = "ValueError"
                  /\ UNCHANGED <<boards, built>>
             ELSE /\ pc' = "loop"
                  /\ boards' = Append(boards, board)
                  /\ built' = Append(built, 0)
  /\ UNCHANGED <<cfg, frame, offset_step, board_x_half_width, top_offsets,
                 bottom_offsets, left_offsets, right_offsets>>

\* variant: the offset is not advanced
NextOffset_stuck(o) == o

NextOffset(o) == o + offset_step

\* the loop may still add boards in this call of calculate
BelowCap == Len(boards) < MaxBoards * runs

\* variant: both candidates are built before either is tested
LoopStep_both_built ==
  /\ pc = "loop"
  /\ BelowCap
  /\ \E o \in {NextOffset(offset)} :
     \E board \in {try_create_board(o)} : \E board2 \in {try_create_board(-o)} :
        /\ offset' = o
        /\ calls' = calls \o << [offset |-> o, result |-> board],
                                [offset |-> -o, result |-> board2] >>
        /\ IF board.raises \/ board2.raises
           THEN /\ pc' = "ValueError"
                /\ UNCHANGED <<boards, built>>
           ELSE IF board.isNone \/ board2.isNone
           THEN /\ pc' = "offsets"
                /\ UNCHANGED <<boards, built>>
           ELSE /\ boards' = boards \o <<board, board2>>
                /\ built' = built \o <<o, -o>>
                /\ pc' = "loop"
  /\ UNCHANGED <<cfg, runs, frame, offset_step, board_x_half_width, top_offsets,
                 bottom_offsets, left_offsets, right_offsets>>

\* one iteration of the while loop; board2 is computed only when board is
\* not None
LoopStep ==
  /\ pc = "loop"
  /\ BelowCap
  /\ \E o \in {NextOffset(offset)} : \E board \in {try_create_board(o)} :
        /\ offset' = o
        /\ IF board.raises \/ board.isNone
           THEN /\ calls' = Append(calls, [offset |-> o, result |-> board])
                /\ pc' = IF board.raises THEN "ValueError" ELSE "offsets"
                /\ UNCHANGED <<boards, built>>
           ELSE \E board2 \in {try_create_board(-o)} :
                /\ calls' = calls \o << [offset |-> o, result |-> board],
                                        [offset |-> -o, result |-> board2] >>
                /\ IF board2.raises \/ board2.isNone
                   THEN /\ pc' = IF board2.raises THEN "ValueError" ELSE "offsets"
                        /\ UNCHANGED <<boards, built>>
                   ELSE /\ boards' = boards \o <<board, board2>>
                        /\ built' = built \o <<o, -o>>
                        /\ pc' = "loop"
  /\ UNCHANGED <<cfg, runs, frame, offset_step, board_x_half_width, top_offsets,
                 bottom_offsets, left_offsets, right_offsets>>

(* ---------------------------------------------------------------------- *)
(* Layout._calculate_offsets                                               *)
(* ---------------------------------------------------------------------- *)
HalfWidth == (cfg.width * Scale) \div 2
HalfHeight == (cfg.height * Scale) \div 2

\* the index of the first entry of bs that is None, Len(bs) + 1 if there is none
RECURSIVE FirstNone(_, _)
FirstNone(bs, i) ==
  IF i > Len(bs) THEN i
  ELSE IF bs[i].isNone THEN i ELSE FirstNone(bs, i + 1)

\* the points of the boards bs[1..n], in iteration order
RECURSIVE PointsOf(_, _)
PointsOf(bs, n) ==
  IF n = 0 THEN << >> ELSE PointsOf(bs, n - 1) \o bs[n].pts

\* offsets extended by (value, value + shift) for each value: _append_offset
\* applied to the values in order
append_offsets(offsets, values, shift) ==
  offsets \o [i \in 1..Len(values) |-> <<values[i], values[i] + shift>>]

\* the x resp. y coordinates of the points pts
XsOf(pts) == [i \in 1..Len(pts) |-> pts[i][1]]
YsOf(pts) == [i \in 1..Len(pts) |-> pts[i][2]]

BottomOffsets(acc, pts) ==
  append_offsets(acc, XsOf(SelectSeq(pts, LAMBDA p : IsClose(p[2], -HalfHeight))), HalfWidth)

\* variant: the top edge records the distance with the shift of the side edges
TopOffsets_height_shift(acc, pts) ==
  append_offsets(acc, XsOf(SelectSeq(pts, LAMBDA p : IsClose(p[2], HalfHeight))), HalfHeight)

TopOffsets(acc, pts) ==
  append_offsets(acc, XsOf(SelectSeq(pts, LAMBDA p : IsClose(p[2], HalfHeight))), HalfWidth)

LeftOffsets(acc, pts) ==
  append_offsets(acc, YsOf(SelectSeq(pts, LAMBDA p : IsClose(p[1], -HalfWidth))), HalfHeight)

RightOffsets(acc, pts) ==
  append_offsets(acc, YsOf(SelectSeq(pts, LAMBDA p : IsClose(p[1], HalfWidth))), HalfHeight)

\* the pass over all of self.boards, appending to the four lists as they
\* are; iterating a None entry raises TypeError, and the entries recorded
\* before it stay
CalculateOffsets ==
  /\ pc = "offsets"
  /\ LET k == FirstNone(boards, 1)
         pts == PointsOf(boards, k - 1)
     IN /\ bottom_offsets' = BottomOffsets(bottom_offsets, pts)
        /\ top_offsets' = TopOffsets(top_offsets, pts)
        /\ left_offsets' = LeftOffsets(left_offsets, pts)
        /\ right_offsets' = RightOffsets(right_offsets, pts)
        /\ pc' = IF k <= Len(boards) THEN "TypeError" ELSE "done"
  /\ UNCHANGED <<cfg, runs, frame, offset_step, board_x_half_width, offset, boards,
                 calls, built>>

Next == Construct \/ Setup \/ LoopStep \/ CalculateOffsets

Spec == Init /\ [][Next]_vars

\* the program runs its steps one after the other until it returns or raises
FairSpec == Spec /\ WF_vars(Next)

(* ====================================================================== *)
(* Properties                                                              *)
(* ====================================================================== *)
PointSet(pts) == {pts[i] : i \in 1..Len(pts)}
Reflect(ps) == {<<-p[1], -p[2]>> : p \in ps}
MirrorX(ps) == {<<-p[1], p[2]>> : p \in ps}

\* calculate has been called exactly once (the lifecycle of a Layout)
FirstRun == runs = 1

\* the while loop of calculate has been left
LoopEnded == pc \in {"offsets", "done", "TypeError"}

\* 1 when setup stored the center entry, else 0
CenterCount == IF cfg.kind = "Odd" THEN 1 ELSE 0
\* indices of the entries of boards appended by the loop
LoopBoards == (CenterCount + 1)..Len(boards)

\* every multiplication and division of the run is exact in units of 1/Scale
ArithmeticExact ==
  /\ (cfg.width * Scale) % 2 = 0 /\ (cfg.height * Scale) % 2 = 0
  /\ Sin(cfg.angle).n # 0 =>
       /\ DivExact(cfg.board_width * Scale, Sin(cfg.angle))
       /\ DivExact(cfg.spacing * Scale, Sin(cfg.angle))
       /\ DivRat(cfg.board_width * Scale, Sin(cfg.angle)) % 2 = 0
       /\ OffsetStep(cfg) % 2 = 0
  /\ \A i \in 1..Len(calls) : \A x0 \in {XMin(calls[i].offset), XMax(calls[i].offset)} :
       LET line == TiltedLine(cfg.angle, x0)
       IN /\ MulExact(line.slope, x0)
          /\ MulExact(line.slope, HalfWidth)
          /\ DivExact(HalfHeight - line.intercept, line.slope)
          /\ DivExact(-HalfHeight - line.intercept, line.slope)

(* ---------------------------------------------------------------------- *)
\* C1: for every valid configuration the loop of calculate ends: from any
\* state inside the loop the program reaches the state after the loop, the
\* last candidate tried having returned no-board, with finitely many boards.
C1_LoopTerminates ==
  (pc = "loop" /\ IsValid(cfg))
    ~> (/\ pc = "offsets"
        /\ calls # << >>
        /\ calls[Len(calls)].result.isNone
        /\ Len(boards) < MaxBoards * runs)

\* a valid layout whose loop kept two pairs and then met a no-board candidate
C1_Witness ==
  /\ IsValid(cfg) /\ pc = "offsets" /\ Len(boards) >= 4
  /\ calls[Len(calls)].result.isNone

(* ---------------------------------------------------------------------- *)
\* C2 as stated: after the one call of calculate, every board the loop added at offset o has
\* a partner built at -o whose vertex set is its mirror image under x -> -x
\* (y unchanged).
C2_MirrorSymmetric ==
  (pc = "done" /\ FirstRun) =>
    \A i \in LoopBoards : \E j \in 1..Len(boards) :
      /\ built[j] = -built[i]
      /\ PointSet(boards[j].pts) = MirrorX(PointSet(boards[i].pts))

\* C2 amended: after the one call of calculate, every board the loop added at offset o has a
\* partner built at -o whose vertex set is its image under the point
\* reflection (x, y) -> (-x, -y).
C2_PointSymmetric ==
  (pc = "done" /\ FirstRun) =>
    \A i \in LoopBoards : \E j \in 1..Len(boards) :
      /\ built[j] = -built[i]
      /\ PointSet(boards[j].pts) = Reflect(PointSet(boards[i].pts))

\* a finished valid layout with two pairs, one board of which is not its
\* partner's mirror image
C2_Witness ==
  /\ IsValid(cfg) /\ pc = "done" /\ FirstRun /\ Len(boards) >= 4
  /\ \E i \in LoopBoards : \A j \in 1..Len(boards) :
       PointSet(boards[j].pts) # MirrorX(PointSet(boards[i].pts))

(* ---------------------------------------------------------------------- *)
\* C3: for a valid configuration every entry of boards is a polygon, a
\* non-empty list of points; a
\* no-board result is never stored, so the edge-offset pass never fails on
\* an entry it cannot iterate.
C3_OnlyPolygonsStored ==
  IsValid(cfg) =>
    /\ \A i \in 1..Len(boards) : ~boards[i].isNone /\ Len(boards[i].pts) > 0
    /\ pc # "TypeError"

(* ---------------------------------------------------------------------- *)
\* C4: constructing a Layout with an invalid configuration fails with
\* InvalidConfiguration, with boards and the four offset lists empty and no
\* board construction attempted.
C4_InvalidConfigurationRejected ==
  (~IsValid(cfg) /\ pc # "new") =>
    /\ pc = "InvalidConfiguration"
    /\ boards = << >> /\ calls = << >>
    /\ top_offsets = << >> /\ bottom_offsets = << >>
    /\ left_offsets = << >> /\ right_offsets = << >>

(* ---------------------------------------------------------------------- *)
\* the (board, vertex) index pairs of the stored boards
Vertices == UNION { { <<i, j>> : j \in 1..Len(boards[i].pts) } : i \in 1..Len(boards) }
VertexAt(v) == boards[v[1]].pts[v[2]]

\* the vertices whose coordinate c (1 for x, 2 for y) equals e
VerticesAt(c, e) == { v \in Vertices : VertexAt(v)[c] = e }

\* list holds exactly one entry (value, value + shift) per vertex of on, the
\* value being the vertex's coordinate c, and nothing else
RecordsExactly(list, on, c, shift) ==
  /\ \A v \in on :
       \E k \in 1..Len(list) : list[k] = <<VertexAt(v)[c], VertexAt(v)[c] + shift>>
  /\ \A k \in 1..Len(list) :
       \E v \in on : list[k] = <<VertexAt(v)[c], VertexAt(v)[c] + shift>>
  /\ Len(list) = Cardinality(on)

\* C5: after the one call of calculate, a vertex (x, y) with y = height/2 is recorded in
\* top_offsets as (x, x + width/2), with y = -height/2 in bottom_offsets as
\* (x, x + width/2), with x = -width/2 in left_offsets as (y, y + height/2),
\* with x = width/2 in right_offsets as (y, y + height/2); a vertex at a frame
\* corner is in both adjacent lists; and each list holds exactly one entry per
\* vertex on its edge and nothing else.
C5_EdgeOffsets ==
  (pc = "done" /\ FirstRun) =>
    /\ RecordsExactly(top_offsets, VerticesAt(2, HalfHeight), 1, HalfWidth)
    /\ RecordsExactly(bottom_offsets, VerticesAt(2, -HalfHeight), 1, HalfWidth)
    /\ RecordsExactly(left_offsets, VerticesAt(1, -HalfWidth), 2, HalfHeight)
    /\ RecordsExactly(right_offsets, VerticesAt(1, HalfWidth), 2, HalfHeight)

\* a finished valid layout with a vertex at the top right frame corner,
\* recorded in top_offsets and in right_offsets, and all four lists in use
C5_Witness ==
  /\ IsValid(cfg) /\ pc = "done" /\ FirstRun
  /\ \E v \in Vertices : VertexAt(v) = <<HalfWidth, HalfHeight>>
  /\ \E k \in 1..Len(top_offsets) : top_offsets[k] = <<HalfWidth, 2 * HalfWidth>>
  /\ \E k \in 1..Len(right_offsets) : right_offsets[k] = <<HalfHeight, 2 * HalfHeight>>
  /\ bottom_offsets # << >> /\ left_offsets # << >>

(* ---------------------------------------------------------------------- *)
\* the footprint on the x axis of the lines of the tilt angle that meet the
\* frame: width + |height / tan|
FrameExtent ==
  Abs(cfg.width * Scale) + Abs(DivRat(cfg.height * Scale, Tan(cfg.angle)))

\* board_width + spacing, measured on the x axis, exceeds the frame's extent
StepExceedsFrame ==
  /\ IsValid(cfg)
  /\ Abs(DivRat((cfg.board_width + cfg.spacing) * Scale, Sin(cfg.angle))) > FrameExtent

\* C6 as stated: when board_width + spacing exceeds the frame's extent,
\* the one call of calculate yields exactly one board for EvenLayout, and for OddLayout the
\* single center board at offset 0 and nothing else.
C6_ExactlyOneBoard ==
  (LoopEnded /\ FirstRun /\ StepExceedsFrame) =>
    /\ Len(boards) = 1
    /\ cfg.kind = "Odd" => built = <<0>>

\* C6 amended: when board_width + spacing exceeds the frame's extent,
\* the one call of calculate yields for EvenLayout no board or exactly the one pair built at
\* +offset_step/2 and -offset_step/2, and for OddLayout the single entry
\* built at offset 0 and nothing else.
C6_AtMostFirstPosition ==
  (LoopEnded /\ FirstRun /\ StepExceedsFrame) =>
    /\ cfg.kind = "Even" =>
         \/ boards = << >>
         \/ /\ Len(boards) = 2
            /\ 2 * built[1] = offset_step /\ built[2] = -built[1]
    /\ cfg.kind = "Odd" => Len(boards) = 1 /\ built = <<0>>

\* an EvenLayout whose step exceeds the frame and which ended with one pair
C6_Witness ==
  /\ LoopEnded /\ FirstRun /\ StepExceedsFrame /\ cfg.kind = "Even"
  /\ Len(boards) = 2 /\ ~boards[1].isNone /\ ~boards[2].isNone

(* ---------------------------------------------------------------------- *)
\* the offset of the k-th loop iteration, doubled: (2k - 1) * offset_step for
\* EvenLayout, 2k * offset_step for OddLayout
TwiceLoopOffset(k) ==
  IF cfg.kind = "Even" THEN (2 * k - 1) * offset_step ELSE 2 * k * offset_step

\* the loop-added entries of bs are pairs, the k-th built at the k-th loop
\* offset and at its negation
PairsInOrder(bs, bt) ==
  /\ (Len(bs) - CenterCount) % 2 = 0
  /\ Len(bt) = Len(bs)
  /\ \A k \in 1..((Len(bs) - CenterCount) \div 2) :
       /\ 2 * bt[CenterCount + 2 * k - 1] = TwiceLoopOffset(k)
       /\ bt[CenterCount + 2 * k] = -bt[CenterCount + 2 * k - 1]
       /\ ~bs[CenterCount + 2 * k - 1].isNone /\ ~bs[CenterCount + 2 * k].isNone

\* a step of the loop either appends the pair built at +offset and -offset,
\* both boards, and stays in the loop, or appends nothing and leaves the loop
\* after a no-board result, without trying -offset when +offset gave no board
LoopStepKeepsPairs ==
  LET n == Len(calls')
  IN \/ /\ pc' = "loop"
        /\ n = Len(calls) + 2
        /\ SubSeq(calls', 1, Len(calls)) = calls
        /\ calls'[n - 1].offset = offset' /\ calls'[n].offset = -offset'
        /\ ~calls'[n - 1].result.isNone /\ ~calls'[n].result.isNone
        /\ boards' = boards \o <<calls'[n - 1].result, calls'[n].result>>
     \/ /\ pc' = "offsets"
        /\ boards' = boards
        /\ calls'[n].result.isNone
        /\ \/ n = Len(calls) + 1 /\ calls'[n].offset = offset'
           \/ /\ n = Len(calls) + 2
              /\ calls'[n].offset = -offset'
              /\ calls'[n - 1].offset = offset' /\ ~calls'[n - 1].result.isNone

\* C7: in the one call of calculate every step of the loop appends a complete pair (+offset, then -offset)
\* or appends nothing and ends the loop at the first no-board result, the
\* -offset candidate not being tried when +offset fails; in every state the
\* number of loop-added boards is even (EvenLayout holds an even, OddLayout
\* an odd number of entries), and the pairs were built at offset_step/2,
\* 3*offset_step/2, ... (Even) or offset_step, 2*offset_step, ... (Odd), in
\* this order.
C7_PairsOnly ==
  [][ runs' = 1 =>
        /\ pc = "loop" => (LoopStepKeepsPairs /\ offset' = offset + offset_step)
        /\ pc' \in {"loop", "offsets", "done", "TypeError"} =>
             PairsInOrder(boards', built') ]_vars

\* an OddLayout that kept two pairs and left the loop on a no-board result at
\* +offset, -offset not having been tried
C7_Witness ==
  /\ IsValid(cfg) /\ cfg.kind = "Odd" /\ pc = "offsets" /\ FirstRun /\ Len(boards) = 5
  /\ Len(calls) = 6 /\ calls[6].result.isNone /\ calls[6].offset = 3 * offset_step

(* ---------------------------------------------------------------------- *)
\* the calls of _try_create_board that returned a board
BoardCalls == { i \in 1..Len(calls) : ~calls[i].result.isNone /\ ~calls[i].result.raises }

\* twice the signed area of the triangle a, b, c
Cross(a, b, c) == (b[1] - a[1]) * (c[2] - a[2]) - (b[2] - a[2]) * (c[1] - a[1])
Sign(v) == IF v > 0 THEN 1 ELSE IF v < 0 THEN -1 ELSE 0

\* the segments ab and cd cross in a point interior to both
EdgesCross(a, b, c, d) ==
  /\ Sign(Cross(a, b, c)) * Sign(Cross(a, b, d)) < 0
  /\ Sign(Cross(c, d, a)) * Sign(Cross(c, d, b)) < 0

\* the vertex after index i on the closed polygon pts
NextVertex(pts, i) == pts[(i % Len(pts)) + 1]

AscendingAround(center, pts) ==
  \A i, j \in 1..Len(pts) : i < j => ~AngleLess(center, pts[j], pts[i])
PairwiseDistinct(pts) ==
  \A i, j \in 1..Len(pts) : i # j => pts[i] # pts[j]
NoEdgesCross(pts) ==
  \A i, j \in 1..Len(pts) :
    ~EdgesCross(pts[i], NextVertex(pts, i), pts[j], NextVertex(pts, j))

\* C8: for a valid configuration every board returned by board construction
\* at offset o lists its
\* vertices in ascending angular order around (o, 0), its vertices are
\* pairwise distinct, and its closed outline has no two edges crossing.
C8_SimplePolygon ==
  IsValid(cfg) => \A c \in BoardCalls :
    /\ AscendingAround(<<calls[c].offset, 0>>, calls[c].result.pts)
    /\ PairwiseDistinct(calls[c].result.pts)
    /\ NoEdgesCross(calls[c].result.pts)

(* ---------------------------------------------------------------------- *)
FrameXs == {frame[i][1] : i \in 1..Len(frame)}
FrameYs == {frame[i][2] : i \in 1..Len(frame)}
InFrame(p) ==
  /\ \E a, b \in FrameXs : a <= p[1] /\ p[1] <= b
  /\ \E a, b \in FrameYs : a <= p[2] /\ p[2] <= b

\* tn * (the x at which the line of the tilt angle through p meets y = 0),
\* for the tangent tn / td:  tn * (x - y / tan) = tn * x - td * y
TanTimesFoot(p) == Tan(cfg.angle).n * p[1] - Tan(cfg.angle).d * p[2]

\* p lies on the line of the tilt angle through (x0, 0)
OnEdgeLine(p, x0) == TanTimesFoot(p) = Tan(cfg.angle).n * x0

\* p lies in the closed strip between the edge lines of the board at offset o
InStrip(p, o) ==
  LET a == Tan(cfg.angle).n * XMin(o)
      b == Tan(cfg.angle).n * XMax(o)
  IN Min(a, b) <= TanTimesFoot(p) /\ TanTimesFoot(p) <= Max(a, b)

\* the points of the frame boundary (every point of the model's grid on a
\* vertical or on a horizontal side)
Span(S) == (CHOOSE a \in S : \A b \in S : a <= b)..(CHOOSE a \in S : \A b \in S : a >= b)
BoundaryPoints == (FrameXs \X Span(FrameYs)) \cup (Span(FrameXs) \X FrameYs)

\* C9: a board returned at an offset has as vertex set exactly the vertices
\* of the frame clipped to the strip: every vertex lies in the closed frame
\* and in the closed strip, every frame corner in the closed strip is a
\* vertex, and every point where an edge line meets a frame side is a vertex.
C9_ClippedStrip ==
  \A c \in BoardCalls :
    LET o == calls[c].offset
        V == PointSet(calls[c].result.pts)
    IN /\ \A p \in V : InFrame(p) /\ InStrip(p, o)
       /\ \A p \in V : \/ p \in PointSet(frame)
                       \/ OnEdgeLine(p, XMin(o)) \/ OnEdgeLine(p, XMax(o))
       /\ \A k \in 1..Len(frame) : InStrip(frame[k], o) => frame[k] \in V
       /\ \A p \in BoundaryPoints :
            (OnEdgeLine(p, XMin(o)) \/ OnEdgeLine(p, XMax(o))) => p \in V

\* a valid configuration with a board of five or more vertices, a frame
\* corner among them
C9_Witness ==
  /\ IsValid(cfg)
  /\ \E c \in BoardCalls :
       /\ Len(calls[c].result.pts) >= 5
       /\ \E k \in 1..Len(frame) : frame[k] \in PointSet(calls[c].result.pts)
       /\ \E p \in PointSet(calls[c].result.pts) : p \notin PointSet(frame)

(* ---------------------------------------------------------------------- *)
\* C10: for a valid configuration board construction returns no-board only
\* for a strip entirely outside
\* the frame: neither edge line meets the frame boundary and no frame corner
\* lies between the two edge lines.
C10_NoBoardOnlyOutside ==
  IsValid(cfg) => \A c \in 1..Len(calls) : calls[c].result.isNone =>
    LET o == calls[c].offset
    IN /\ \A p \in BoundaryPoints : ~OnEdgeLine(p, XMin(o)) /\ ~OnEdgeLine(p, XMax(o))
       /\ \A k \in 1..Len(frame) : ~InStrip(frame[k], o)

====
